---- MODULE Spec2Model ----
(***************************************************************************)
(* A model of the gob wire engine of rust-gob: the varint codec            *)
(* (internal/gob.rs, Message), the section framing (internal/gob.rs,       *)
(* Stream), the stream decoder and the standalone decoder (de/mod.rs) and  *)
(* the singleton-or-struct dispatch (internal/de/value.rs).                *)
(*                                                                         *)
(* A 64-bit word (u64, or i64 in two's complement) is a sequence of 8      *)
(* bytes, most significant first, so that the codec keeps its full width.  *)
(* A usize that counts bytes of a buffer is an Int.                        *)
(***************************************************************************)
EXTENDS Integers, Sequences, FiniteSets, TLC

\* ------------------------------------------------------------------------
\* Bounds of the model
\* ------------------------------------------------------------------------

\* sections (or raw fragments) a stream is made of
MaxSections == 2

\* deserializer() calls made on one stream decoder
MaxCalls == 4

\* largest chunk (besides "everything that is left") one read delivers
MaxChunk == 2

\* longest payload of the framing round trip (besides one of 130 bytes)
MaxPayload == 2

\* most bytes after the first in a message of any bytes
MaxTail == 10

\* ------------------------------------------------------------------------
\* 64-bit words
\* ------------------------------------------------------------------------

Byte == 0..255

Min(S) == CHOOSE x \in S : \A y \in S : x <= y

\* The word whose bytes are f[1] .. f[8], as a tuple.
Word(f) == <<f[1], f[2], f[3], f[4], f[5], f[6], f[7], f[8]>>

\* A big-endian byte string of at most 8 bytes as a word.
PadBE(bs) == Word([i \in 1..8 |-> IF i <= 8 - Len(bs) THEN 0 ELSE bs[i - (8 - Len(bs))]])

\* A small number as a word (n < 2^24).
U64(n) == PadBE(<<n \div 65536, (n \div 256) % 256, n % 256>>)

\* `as usize` of a length word.  Lengths of 2^24 and more all behave alike
\* here (no buffer of the model holds that many bytes): they saturate.
AsUsize(w) ==
    IF \A i \in 1..5 : w[i] = 0
    THEN w[6] * 65536 + w[7] * 256 + w[8]
    ELSE 16777216

\* n.leading_zeros() / 8
LeadingZeroBytes(w) ==
    LET nz == {i \in 1..8 : w[i] # 0}
    IN  IF nz = {} THEN 8 ELSE Min(nz) - 1

\* !w
Not64(w) == Word([i \in 1..8 |-> 255 - w[i]])

\* w << 1
Shl1(w) == Word([i \in 1..8 |-> ((w[i] * 2) % 256) + (IF i < 8 THEN w[i + 1] \div 128 ELSE 0)])

\* w >> 1 (logical)
Shr1(w) == Word([i \in 1..8 |-> (w[i] \div 2) + (IF i > 1 THEN (w[i - 1] % 2) * 128 ELSE 0)])

\* w | 1
Or1(w) == Word([i \in 1..8 |-> IF i = 8 /\ w[8] % 2 = 0 THEN w[8] + 1 ELSE w[i]])

\* n < 0 for an i64
IsNeg(w) == w[1] >= 128

\* w + 1 (wrapping): the trailing 255 bytes turn 0, the byte before them grows
Inc64(w) ==
    LET carry(i) == \A j \in (i + 1)..8 : w[j] = 255
    IN  Word([i \in 1..8 |-> IF carry(i) THEN (w[i] + 1) % 256 ELSE w[i]])

\* n.wrapping_neg() of an i64
Neg64(w) == Inc64(Not64(w))

I64Min == <<128, 0, 0, 0, 0, 0, 0, 0>>

I64Max == <<127, 255, 255, 255, 255, 255, 255, 255>>

\* A small signed number as an i64 word (|n| < 2^24).
I64(n) == IF n >= 0 THEN U64(n) ELSE Neg64(U64(-n))

\* ------------------------------------------------------------------------
\* Message: the varint codec (internal/gob.rs)
\* ------------------------------------------------------------------------

\* The result of a read at cursor position pos (bytes consumed so far):
\* res is "ok", "incomplete" or "panic"; pos is the cursor afterwards.
Rd(res, val, pos) == [res |-> res, val |-> val, pos |-> pos]

Zero64 == U64(0)

read_uint(buf, pos) ==
    IF Len(buf) - pos < 1 THEN Rd("incomplete", Zero64, pos)
    ELSE LET u7_or_len == buf[pos + 1] IN
         IF u7_or_len < 128 THEN Rd("ok", PadBE(<<u7_or_len>>), pos + 1)
         ELSE LET len == (255 - u7_or_len) + 1 IN
              IF Len(buf) - (pos + 1) < len THEN Rd("incomplete", Zero64, pos + 1)
              \* Buf::get_uint_be(nbytes) panics for nbytes > 8
              ELSE IF len > 8 THEN Rd("panic", Zero64, pos + 1)
              ELSE Rd("ok", PadBE(SubSeq(buf, pos + 2, pos + 1 + len)), pos + 1 + len)

\* read_int taking the odd words for -sint
read_int_negates(buf, pos) ==
    LET r == read_uint(buf, pos) IN
    IF r.res # "ok" THEN r
    ELSE IF r.val[8] % 2 = 0 THEN Rd("ok", Shr1(r.val), r.pos)
    ELSE Rd("ok", Neg64(Shr1(r.val)), r.pos)

read_int(buf, pos) ==
    LET r == read_uint(buf, pos) IN
    IF r.res # "ok" THEN r
    ELSE LET bits == r.val
             sign == bits[8] % 2
             sint == Shr1(bits)
         IN  IF sign = 0 THEN Rd("ok", sint, r.pos) ELSE Rd("ok", Not64(sint), r.pos)

read_bytes_len(buf, pos) ==
    LET r == read_uint(buf, pos) IN
    IF r.res # "ok" THEN r
    ELSE IF Len(buf) - r.pos < AsUsize(r.val) THEN Rd("incomplete", Zero64, r.pos)
    ELSE r

\* write_uint with all 8 bytes of every n of 128 and more
write_uint_wide(n) ==
    IF LeadingZeroBytes(n) >= 7 /\ n[8] < 128 THEN <<n[8]>> ELSE <<248>> \o n

write_uint(n) ==
    IF LeadingZeroBytes(n) >= 7 /\ n[8] < 128 THEN <<n[8]>>
    ELSE LET nbytes == 8 - LeadingZeroBytes(n)
         IN  <<255 - (nbytes - 1)>> \o SubSeq(n, 9 - nbytes, 8)

write_int(n) ==
    IF IsNeg(n) THEN write_uint(Or1(Shl1(Not64(n))))
    ELSE write_uint(Shl1(n))

\* ------------------------------------------------------------------------
\* Stream, write side (internal/gob.rs)
\* ------------------------------------------------------------------------

\* write_section with a length that leaves out the width of the type id
write_section_payload_len(type_id, buf) ==
    write_uint(U64(Len(buf))) \o write_int(type_id) \o buf

write_section(type_id, buf) ==
    LET type_id_msg == write_int(type_id)
        type_id_pos == Len(type_id_msg)
        len_msg == write_uint(U64(Len(buf) + type_id_pos))
    IN  len_msg \o type_id_msg \o buf

\* ------------------------------------------------------------------------
\* Types: the type dictionary, and the decoding of a wire type
\* ------------------------------------------------------------------------

\* An Option: <<>> is None, <<x>> is Some(x).
None == <<>>

Some(x) == <<x>>

WireType(kind, id) == [kind |-> kind, id |-> id]

\* The ids the dictionary is born with: the scalar types, interface, and the
\* WireType descriptor itself.
BuiltinIds == (1..8) \cup {16}

\* Types::new()
NewTypes == {WireType("Builtin", U64(i)) : i \in BuiltinIds}

\* Types::lookup(id)
lookup(types, id) ==
    IF \E t \in types : t.id = id
    THEN Some(CHOOSE t \in types : t.id = id)
    ELSE None

\* Types::insert(wire_type): a live id is left as it is.
insert(types, wire_type) ==
    IF \E t \in types : t.id = wire_type.id THEN types ELSE types \cup {wire_type}

\* The result of decoding a wire type: res is "ok", "err" or "panic".
Wt(res, kind, id, pos, msg) == [res |-> res, kind |-> kind, id |-> id, pos |-> pos, msg |-> msg]

WtFail(r) ==
    IF r.res = "panic" THEN Wt("panic", "", Zero64, r.pos, "get_uint_be: more than 8 bytes")
    ELSE Wt("err", "", Zero64, r.pos, "message incomplete")

WtBad(pos) == Wt("err", "", Zero64, pos, "invalid wire type")

ArmKinds == <<"Array", "Slice", "Struct", "Map">>

\* WireType::deserialize over a payload, one operator per varint it reads.
\* The payload is the field delta that selects the arm (1 Array, 2 Slice,
\* 3 Struct, 4 Map), then the arm's struct: its CommonType (field delta 1),
\* the arm's other fields left at their defaults, the terminating delta 0;
\* then the delta 0 that ends the wire type.  The CommonType struct is an
\* optional Name (field delta 1, a length and that many bytes), the Id (the
\* field after it), the terminating delta 0.

\* z2: the delta that ends the wire type
WtEnd2(kind, id, z2) ==
    IF z2.res # "ok" THEN WtFail(z2)
    ELSE IF AsUsize(z2.val) # 0 THEN WtBad(z2.pos)
    ELSE Wt("ok", kind, id, z2.pos, "")

\* z1: the delta that ends the arm's struct
WtEnd1(p, kind, id, z1) ==
    IF z1.res # "ok" THEN WtFail(z1)
    ELSE IF AsUsize(z1.val) # 0 THEN WtBad(z1.pos)
    ELSE WtEnd2(kind, id, read_uint(p, z1.pos))

\* z: the delta that ends the CommonType, after its Id
CtEnd(p, kind, id, z) ==
    IF z.res # "ok" THEN WtFail(z)
    ELSE IF AsUsize(z.val) # 0 THEN WtBad(z.pos)
    ELSE WtEnd1(p, kind, id, read_uint(p, z.pos))

\* i: the Id
CtId(p, kind, i) ==
    IF i.res # "ok" THEN WtFail(i)
    ELSE CtEnd(p, kind, i.val, read_uint(p, i.pos))

\* e: the field delta after the Name
CtAfterName(p, kind, e) ==
    IF e.res # "ok" THEN WtFail(e)
    ELSE IF AsUsize(e.val) = 0 THEN WtEnd1(p, kind, Zero64, read_uint(p, e.pos))
    ELSE IF AsUsize(e.val) = 1 THEN CtId(p, kind, read_int(p, e.pos))
    ELSE WtBad(e.pos)

\* n: the length of the Name
CtName(p, kind, n) ==
    IF n.res # "ok" THEN WtFail(n)
    ELSE CtAfterName(p, kind, read_uint(p, n.pos + AsUsize(n.val)))

\* d: the first field delta of the CommonType
CtFirst(p, kind, d) ==
    IF d.res # "ok" THEN WtFail(d)
    ELSE IF AsUsize(d.val) = 0 THEN WtEnd1(p, kind, Zero64, read_uint(p, d.pos))
    ELSE IF AsUsize(d.val) = 1 THEN CtName(p, kind, read_bytes_len(p, d.pos))
    ELSE IF AsUsize(d.val) = 2 THEN CtId(p, kind, read_int(p, d.pos))
    ELSE WtBad(d.pos)

\* c: the first field delta of the arm's struct
WtCommon(p, kind, c) ==
    IF c.res # "ok" THEN WtFail(c)
    ELSE IF AsUsize(c.val) # 1 THEN WtBad(c.pos)
    ELSE CtFirst(p, kind, read_uint(p, c.pos))

\* a: the field delta that selects the arm
WtArm(p, a) ==
    IF a.res # "ok" THEN WtFail(a)
    ELSE IF AsUsize(a.val) \notin 1..4 THEN WtBad(a.pos)
    ELSE WtCommon(p, ArmKinds[AsUsize(a.val)], read_uint(p, a.pos))

DecodeWireType(p) == WtArm(p, read_uint(p, 0))

\* The payload of a type definition: arm, CommonType with its Id alone.
WirePayload(arm, id) == <<arm, 1, 2>> \o write_int(id) \o <<0, 0, 0>>

\* ------------------------------------------------------------------------
\* ValueDeserializer (internal/de/value.rs)
\* ------------------------------------------------------------------------

\* What the value decoder does with a section: kind is "struct" (the struct
\* decoder is entered), "field" (the field-value decoder is entered), "err"
\* or "panic"; pos is the message cursor then; call is the method entered.
Val(kind, pos, msg, call) == [kind |-> kind, pos |-> pos, msg |-> msg, call |-> call]

IsStruct(types, type_id) ==
    lookup(types, type_id) # None /\ lookup(types, type_id)[1].kind = "Struct"

\* the singleton path with every failure of the prefix under one message
SingletonPrefixOneMessage(msg, call) ==
    LET r == read_uint(msg, 0) IN
    IF r.res = "ok" /\ r.val = Zero64 THEN Val("field", r.pos, "", call)
    ELSE Val("err", r.pos, "neither a singleton nor a struct value", call)

\* self.msg.read_uint()? != 0, and what follows it
SingletonPrefix(msg, call) ==
    LET r == read_uint(msg, 0) IN
    IF r.res = "incomplete" THEN Val("err", r.pos, "message incomplete", call)
    ELSE IF r.res = "panic" THEN Val("panic", r.pos, "get_uint_be: more than 8 bytes", call)
    ELSE IF r.val # Zero64 THEN Val("err", r.pos, "neither a singleton nor a struct value", call)
    ELSE Val("field", r.pos, "", call)

\* deserialize_any refusing a type id the dictionary does not hold
deserialize_any_resolves(type_id, types, msg) ==
    IF lookup(types, type_id) = None THEN Val("err", 0, "type not defined", "deserialize_any")
    ELSE IF IsStruct(types, type_id) THEN Val("struct", 0, "", "deserialize_any")
    ELSE SingletonPrefix(msg, "deserialize_any")

\* The decoder entered is made for type_id: StructValueDeserializer::new for
\* the descriptor looked up under it, FieldValueDeserializer::new(self.type_id).
Entered(type_id, v) ==
    [kind |-> v.kind, pos |-> v.pos, msg |-> v.msg, call |-> v.call, type_id |-> type_id]

deserialize_any(type_id, types, msg) ==
    Entered(type_id, IF IsStruct(types, type_id) THEN Val("struct", 0, "", "deserialize_any")
                     ELSE SingletonPrefix(msg, "deserialize_any"))

\* deserialize_enum reading the singleton prefix before it looks the type up
deserialize_enum_prefix_first(type_id, types, msg) ==
    Entered(type_id, IF SingletonPrefix(msg, "deserialize_enum").kind # "field"
                     THEN SingletonPrefix(msg, "deserialize_enum")
                     ELSE IF IsStruct(types, type_id)
                          THEN Val("struct", 1, "", "deserialize_enum")
                          ELSE SingletonPrefix(msg, "deserialize_enum"))

deserialize_enum(type_id, types, msg) ==
    Entered(type_id, IF IsStruct(types, type_id) THEN Val("struct", 0, "", "deserialize_enum")
                     ELSE SingletonPrefix(msg, "deserialize_enum"))

deserialize_struct(type_id, types, msg) ==
    Entered(type_id, IF IsStruct(types, type_id) THEN Val("struct", 0, "", "deserialize_struct")
                     ELSE SingletonPrefix(msg, "deserialize_struct"))

\* ------------------------------------------------------------------------
\* Decisions of the framing layer and of the two decoders
\* ------------------------------------------------------------------------

\* What deserializer() returns: kind is "none", "value", "err" or "panic".
Ret(kind, type_id, len, msg) == [kind |-> kind, type_id |-> type_id, len |-> len, msg |-> msg]

RetNone == Ret("none", Zero64, 0, "")

RetValue(type_id, len) == Ret("value", type_id, len, "")

RetErr(msg) == Ret("err", Zero64, 0, msg)

RetPanic(msg) == Ret("panic", Zero64, 0, msg)

\* msg_len - position in usize: a negative number stands for the wrapped
\* difference 2^64 + msg_len - position of a build without overflow checks.
PayloadLen(len, position) == len - position

\* read_section_len: the first read of an empty buffer returns 0 bytes
EofAtStart == RetNone

\* read_section_len taking an end of the input inside the length for a clean one
EofInLengthIsClean == RetNone

\* read_section_len: a read returns 0 bytes while the length is incomplete
EofInLength == RetErr("UnexpectedEof")

\* read_section going on without the bytes the window is short of
ShortfallIgnored(buf_len, len) == 0

\* read_section: how many bytes read_from_exact is asked for
Shortfall(buf_len, len) == IF buf_len < len THEN len - buf_len ELSE 0

\* if type_id >= 0
IsValueSection(type_id) == ~IsNeg(type_id)

\* the comparison of deserializer() without the negation
TypeIdMismatchUnnegated(type_id, wire_type) == type_id # wire_type.id

\* if -type_id != wire_type.common().id.0
TypeIdMismatch(type_id, wire_type) == Neg64(type_id) # wire_type.id

\* deserializer() forgetting the insert
DefineNothing(types, wire_type) == types

\* deserializer() with an insert that replaces a live definition
DefineOverwrite(types, wire_type) ==
    {t \in types : t.id # wire_type.id} \cup {WireType(wire_type.kind, wire_type.id)}

\* self.defs.insert(wire_type)
Define(types, wire_type) == insert(types, WireType(wire_type.kind, wire_type.id))

\* ------------------------------------------------------------------------
\* Deserializer::from_slice (de/mod.rs)
\* ------------------------------------------------------------------------

\* What value_deserializer comes to: res is "value" (a ValueDeserializer of
\* type_id over the input, its cursor at pos), "err" or "panic"; types is the
\* dictionary then.
Sl(res, type_id, pos, types, msg) ==
    [res |-> res, type_id |-> type_id, pos |-> pos, types |-> types, msg |-> msg]

NotRun == Sl("none", Zero64, 0, {}, "")

SlFail(r, types) ==
    IF r.res = "panic" THEN Sl("panic", Zero64, r.pos, types, "get_uint_be: more than 8 bytes")
    ELSE Sl("err", Zero64, r.pos, types, "message incomplete")

\* The loop of value_deserializer with the cursor of self.msg at pos.  The
\* wire type is decoded from what is left of the input, whatever _len says.
RECURSIVE value_deserializer(_, _, _)
value_deserializer(input, pos, types) ==
    LET len == read_bytes_len(input, pos) IN
    IF len.res # "ok" THEN SlFail(len, types)
    ELSE LET type_id == read_int(input, len.pos) IN
         IF type_id.res # "ok" THEN SlFail(type_id, types)
         ELSE IF IsValueSection(type_id.val)
         THEN Sl("value", type_id.val, type_id.pos, types, "")
         ELSE LET wire_type == DecodeWireType(SubSeq(input, type_id.pos + 1, Len(input))) IN
              IF wire_type.res # "ok"
              THEN Sl(wire_type.res, type_id.val, type_id.pos + wire_type.pos, types, wire_type.msg)
              ELSE IF TypeIdMismatch(type_id.val, wire_type)
              THEN Sl("err", type_id.val, type_id.pos + wire_type.pos, types, "type id mismatch")
              ELSE value_deserializer(input, type_id.pos + wire_type.pos,
                                      Define(types, wire_type))

\* ------------------------------------------------------------------------
\* The streams of the model
\* ------------------------------------------------------------------------

\* A piece of a stream: a section as write_section emits it, or raw bytes.
Sec(type_id, payload) ==
    [wf |-> TRUE, type_id |-> type_id, payload |-> payload,
     bytes |-> write_section(type_id, payload)]

Raw(bytes) == [wf |-> FALSE, type_id |-> Zero64, payload |-> <<>>, bytes |-> bytes]

Menu ==
    { Sec(I64(2), <<0, 2>>),                      \* an int, singleton prefix 0
      Sec(I64(2), <<>>),                          \* an empty payload
      Sec(I64(-65), WirePayload(3, I64(65))),     \* defines struct 65
      Sec(I64(-65), WirePayload(2, I64(65))),     \* defines 65 again, as a slice
      Sec(I64(-65), WirePayload(3, I64(66))),     \* -65 carrying id 66
      Sec(I64(-2), WirePayload(2, I64(2))),       \* defines the built-in id 2
      Sec(I64(65), <<0>>),                        \* a value of type 65
      Raw(<<0>>) }                                \* a declared length of 0

RECURSIVE Flatten(_)
Flatten(pieces) ==
    IF pieces = <<>> THEN <<>> ELSE Head(pieces).bytes \o Flatten(Tail(pieces))

\* ------------------------------------------------------------------------
\* State
\* ------------------------------------------------------------------------

VARIABLES
    plan,       \* the pieces the stream was made of
    stream,     \* the bytes the underlying reader holds
    rpos,       \* how many of them it has delivered
    buffer,     \* StreamDeserializer.buffer: the window of the RingBuf
    defs,       \* StreamDeserializer.defs
    prev_len,   \* StreamDeserializer.prev_len
    pc,         \* where the running deserializer() call stands
    msg_len,    \* read_section: the length read_section_len returned
    sect,       \* what read_section returned last
    ret,        \* what deserializer() returned last
    vres,       \* what the value decoder made of the returned section
    ncalls,     \* deserializer() calls made
    dropped,    \* bytes advanced out of the buffer so far
    out,        \* the sections read_section has returned, in order
    eof,        \* the reader reported the end of input in the running call
    first_err,  \* the first failure a deserializer() call returned, which call
                \* it was and how many sections read_section had returned
    sl,         \* what the standalone decoder made of the same bytes
    codec,      \* a Message on its own: what was written to it and read from it
    ser         \* a SerializeVariantValue and the value buffer of its ctx

vars == <<plan, stream, rpos, buffer, defs, prev_len, pc, msg_len, sect, ret,
          vres, ncalls, dropped, out, eof, first_err, sl, codec, ser>>

Section(type_id, len) == [type_id |-> type_id, len |-> len]

NoValue == [kind |-> "none", pos |-> 0, msg |-> "", call |-> ""]

\* A Message: pc is "new", "written" or "read"; n is the word written, as
\* u64 or (signed) as i64; bytes is what the message holds; rd is what the
\* read returned.
Msg(at, signed, n, bytes, rd) ==
    [pc |-> at, signed |-> signed, n |-> n, bytes |-> bytes, rd |-> rd]

NoMessage == Msg("none", FALSE, Zero64, <<>>, Rd("none", Zero64, 0))

\* A SerializeVariantValue: pc is "new", "struct" (a SerializeStructVariantValue
\* is open), "done" (SerializationOk returned) or "err"; variant is the kind
\* of the schema's variant and variant_idx its index, a u32 as 4 bytes;
\* value is ctx.value and is_empty the flag of the SerializationOk.  start is
\* ctx.value as it was at construction and body what the serializers of the
\* variant's body have appended; previous_index and index are those of the
\* SerializeStructValue.
Variant(at, variant, variant_idx, start, value, body, is_empty, previous_index, index) ==
    [pc |-> at, variant |-> variant, variant_idx |-> variant_idx, start |-> start,
     value |-> value, body |-> body, is_empty |-> is_empty,
     previous_index |-> previous_index, index |-> index]

NoVariant == Variant("none", "", <<0, 0, 0, 0>>, <<>>, <<>>, <<>>, TRUE, -1, 0)

\* RingBuf::advance(n), n <= len
advance(buf, n) == SubSeq(buf, n + 1, Len(buf))

\* StreamDeserializer::new(read), and the standalone decoder not yet run
InitDecoder ==
    /\ rpos = 0
    /\ buffer = <<>>
    /\ defs = NewTypes
    /\ prev_len = None
    /\ pc = "idle"
    /\ msg_len = 0
    /\ sect = Section(Zero64, 0)
    /\ ret = Ret("start", Zero64, 0, "")
    /\ vres = NoValue
    /\ ncalls = 0
    /\ dropped = 0
    /\ out = <<>>
    /\ eof = FALSE
    /\ first_err = None
    /\ sl = NotRun

\* A stream of up to MaxSections pieces of the menu, the last of them cut
\* short by any number of bytes.
Init ==
    /\ codec = NoMessage
    /\ ser = NoVariant
    /\ \E n \in 0..MaxSections : plan \in [1..n -> Menu]
    /\ \E cut \in 0..(IF plan = <<>> THEN 0 ELSE Len(plan[Len(plan)].bytes) - 1) :
          stream = SubSeq(Flatten(plan), 1, Len(Flatten(plan)) - cut)
    /\ InitDecoder

\* The type ids and payloads of the framing round trip.
FrameTypeIds ==
    { I64Min, I64Max, I64(0), I64(1), I64(-1), I64(63), I64(64), I64(-64), I64(-65),
      <<0, 0, 0, 0, 1, 0, 0, 0>>, <<255, 255, 0, 0, 0, 0, 0, 0>> }

FrameBytes == {0, 2, 128, 255}

FramePayloads ==
    UNION {[1..n -> FrameBytes] : n \in 0..MaxPayload} \cup {[i \in 1..130 |-> 7]}

\* One section, as write_section emits it, whole.
InitFrame ==
    /\ codec = NoMessage
    /\ ser = NoVariant
    /\ \E type_id \in FrameTypeIds, payload \in FramePayloads :
          plan = <<Sec(type_id, payload)>>
    /\ stream = plan[1].bytes
    /\ InitDecoder

\* Type-definition sections, one of them with a byte in its payload after
\* the wire type, and the value sections that may follow them.
BoundaryDefs ==
    { Sec(I64(-65), WirePayload(3, I64(65))),
      Sec(I64(-66), WirePayload(2, I64(66))),
      Sec(I64(-65), WirePayload(3, I64(65)) \o <<7>>) }

BoundaryValues == { Sec(I64(65), <<0>>), Sec(I64(2), <<0, 2>>) }

\* Up to MaxSections type definitions followed by one value section, whole.
InitBoundary ==
    /\ codec = NoMessage
    /\ ser = NoVariant
    /\ \E n \in 0..MaxSections :
         \E d \in [1..n -> BoundaryDefs], v \in BoundaryValues :
            plan = d \o <<v>>
    /\ stream = Flatten(plan)
    /\ InitDecoder

\* The chunks one read of the underlying reader may deliver: 0 bytes at the
\* end of input alone, else up to MaxChunk bytes or all that is left.
Chunks == 
    LET left == Len(stream) - rpos IN
    IF left = 0 THEN {0} ELSE {k \in 1..left : k <= MaxChunk \/ k = left}

\* deserializer() returns r.
Return(r) ==
    /\ ret' = r
    /\ pc' = IF r.kind = "panic" THEN "panicked" ELSE "idle"
    /\ first_err' = IF first_err = None /\ r.kind \in {"err", "panic"}
                     THEN Some([ret |-> r, nout |-> Len(out), call |-> ncalls])
                     ELSE first_err

\* ------------------------------------------------------------------------
\* Stream, read side (internal/gob.rs) and StreamDeserializer (de/mod.rs)
\* ------------------------------------------------------------------------

\* deserializer(), the advance past the payload returned last.
Call ==
    /\ pc = "idle"
    /\ ncalls < MaxCalls
    /\ ncalls' = ncalls + 1
    /\ vres' = NoValue
    /\ eof' = FALSE
    /\ IF prev_len # None /\ prev_len[1] > Len(buffer)
       THEN /\ Return(RetPanic("advance past the end of the buffer"))
            /\ UNCHANGED <<buffer, dropped>>
       ELSE /\ buffer' = IF prev_len = None THEN buffer ELSE advance(buffer, prev_len[1])
            /\ dropped' = dropped + (IF prev_len = None THEN 0 ELSE prev_len[1])
            /\ pc' = "section"
            /\ UNCHANGED <<ret, first_err>>
    /\ UNCHANGED <<ser, codec, plan, stream, rpos, defs, prev_len, msg_len, sect, out, sl>>

\* read_section_len, the first fill of an empty buffer.
ReadSectionLenFill ==
    /\ pc = "section"
    /\ IF Len(buffer) = 0
       THEN \E n \in Chunks :
              /\ buffer' = SubSeq(stream, rpos + 1, rpos + n)
              /\ rpos' = rpos + n
              /\ IF n = 0
                 THEN eof' = TRUE /\ Return(EofAtStart)
                 ELSE pc' = "len" /\ UNCHANGED <<ret, first_err, eof>>
       ELSE pc' = "len" /\ UNCHANGED <<buffer, rpos, ret, first_err, eof>>
    /\ UNCHANGED <<ser, codec, plan, stream, defs, prev_len, msg_len, sect, vres, ncalls, dropped, out, sl>>

\* read_section_len dropping the byte it looked at when the parse is Incomplete
ReadSectionLenParseConsumes ==
    /\ pc = "len"
    /\ LET r == read_uint(buffer, 0) IN
       CASE r.res = "ok" ->
              /\ buffer' = advance(buffer, r.pos)
              /\ dropped' = dropped + r.pos
              /\ msg_len' = AsUsize(r.val)
              /\ pc' = "body"
              /\ UNCHANGED <<rpos, ret, first_err, eof>>
         [] r.res = "incomplete" ->
              \E n \in Chunks :
                /\ buffer' = advance(buffer, 1) \o SubSeq(stream, rpos + 1, rpos + n)
                /\ dropped' = dropped + 1
                /\ rpos' = rpos + n
                /\ IF n > 0
                   THEN UNCHANGED <<pc, ret, first_err, eof>>
                   ELSE eof' = TRUE /\ Return(EofInLength)
                /\ UNCHANGED msg_len
         [] r.res = "panic" ->
              /\ Return(RetPanic("get_uint_be: more than 8 bytes"))
              /\ UNCHANGED <<buffer, dropped, msg_len, rpos, eof>>
    /\ UNCHANGED <<ser, codec, plan, stream, defs, prev_len, sect, vres, ncalls, out, sl>>

\* read_section_len, one turn of the loop: a parse of the length and, when it
\* is incomplete, one more read.
ReadSectionLenParse ==
    /\ pc = "len"
    /\ LET r == read_uint(buffer, 0) IN
       CASE r.res = "ok" ->
              /\ buffer' = advance(buffer, r.pos)
              /\ dropped' = dropped + r.pos
              /\ msg_len' = AsUsize(r.val)
              /\ pc' = "body"
              /\ UNCHANGED <<rpos, ret, first_err, eof>>
         [] r.res = "incomplete" ->
              \E n \in Chunks :
                /\ buffer' = buffer \o SubSeq(stream, rpos + 1, rpos + n)
                /\ rpos' = rpos + n
                /\ IF n > 0
                   THEN UNCHANGED <<pc, ret, first_err, eof>>
                   ELSE eof' = TRUE /\ Return(EofInLength)
                /\ UNCHANGED <<dropped, msg_len>>
         [] r.res = "panic" ->
              /\ Return(RetPanic("get_uint_be: more than 8 bytes"))
              /\ UNCHANGED <<buffer, dropped, msg_len, rpos, eof>>
    /\ UNCHANGED <<ser, codec, plan, stream, defs, prev_len, sect, vres, ncalls, out, sl>>

\* read_section after the length: the shortfall is read, the type id parsed
\* and advanced past.
ReadSectionBody ==
    /\ pc = "body"
    /\ LET buf_len == Len(buffer)
           need == Shortfall(buf_len, msg_len)
           left == Len(stream) - rpos
       IN
       IF need > left
       THEN \* read_from_exact meets the end of input; what it had read is
            \* either left in the window or not
            /\ \E keep \in {0, left} : buffer' = buffer \o SubSeq(stream, rpos + 1, rpos + keep)
            /\ rpos' = Len(stream)
            /\ eof' = TRUE
            /\ Return(RetErr("UnexpectedEof"))
            /\ UNCHANGED <<sect, out, dropped>>
       ELSE LET filled == buffer \o SubSeq(stream, rpos + 1, rpos + need)
                r == read_int(filled, 0)
                len == PayloadLen(msg_len, r.pos)
            IN
            /\ rpos' = rpos + need
            /\ UNCHANGED eof
            /\ CASE r.res = "incomplete" ->
                      /\ buffer' = filled
                      /\ Return(RetErr("failed to read type id: Incomplete"))
                      /\ UNCHANGED <<sect, out, dropped>>
                 [] r.res = "panic" ->
                      /\ buffer' = filled
                      /\ Return(RetPanic("get_uint_be: more than 8 bytes"))
                      /\ UNCHANGED <<sect, out, dropped>>
                 [] r.res = "ok" ->
                      /\ buffer' = advance(filled, r.pos)
                      /\ dropped' = dropped + r.pos
                      /\ \E overflow_checks \in BOOLEAN :
                           IF len < 0 /\ overflow_checks
                           THEN /\ Return(RetPanic("attempt to subtract with overflow"))
                                /\ UNCHANGED <<sect, out>>
                           ELSE /\ sect' = Section(r.val, len)
                                /\ out' = Append(out, [type_id |-> r.val, len |-> len,
                                             payload |-> SubSeq(buffer', 1, Min({len, Len(buffer')}))])
                                /\ pc' = "dispatch"
                                /\ UNCHANGED <<ret, first_err>>
    /\ UNCHANGED <<ser, codec, plan, stream, defs, prev_len, msg_len, vres, ncalls, sl>>

\* deserializer(), what it does with the section read_section returned.
Dispatch ==
    /\ pc = "dispatch"
    /\ LET type_id == sect.type_id
           len == sect.len
       IN
       IF len < 0 \/ len > Len(buffer)
       THEN \* &self.buffer.bytes()[..len]
            /\ Return(RetPanic("slice index out of range"))
            /\ UNCHANGED <<defs, prev_len, buffer, dropped>>
       ELSE IF IsValueSection(type_id)
       THEN /\ prev_len' = Some(len)
            /\ Return(RetValue(type_id, len))
            /\ UNCHANGED <<defs, buffer, dropped>>
       ELSE LET wire_type == DecodeWireType(SubSeq(buffer, 1, len)) IN
            CASE wire_type.res = "err" ->
                   /\ Return(RetErr(wire_type.msg))
                   /\ UNCHANGED <<defs, prev_len, buffer, dropped>>
              [] wire_type.res = "panic" ->
                   /\ Return(RetPanic(wire_type.msg))
                   /\ UNCHANGED <<defs, prev_len, buffer, dropped>>
              [] wire_type.res = "ok" ->
                   \E overflow_checks \in BOOLEAN :
                     IF type_id = I64Min /\ overflow_checks
                     THEN /\ Return(RetPanic("attempt to negate with overflow"))
                          /\ UNCHANGED <<defs, prev_len, buffer, dropped>>
                     ELSE IF TypeIdMismatch(type_id, wire_type)
                     THEN /\ Return(RetErr("type id mismatch"))
                          /\ UNCHANGED <<defs, prev_len, buffer, dropped>>
                     ELSE /\ defs' = Define(defs, wire_type)
                          /\ buffer' = advance(buffer, len)
                          /\ dropped' = dropped + len
                          /\ pc' = "section"
                          /\ UNCHANGED <<ret, first_err, prev_len>>
    /\ UNCHANGED <<ser, codec, plan, stream, rpos, msg_len, sect, vres, ncalls, out, eof, sl>>

\* The caller decodes the value section it was handed.
DeserializeValue ==
    /\ pc = "idle"
    /\ ret.kind = "value"
    /\ vres = NoValue
    /\ LET msg == SubSeq(buffer, 1, ret.len) IN
       \E visit \in {"any", "enum", "struct"} :
         vres' = CASE visit = "any" -> deserialize_any(ret.type_id, defs, msg)
                   [] visit = "enum" -> deserialize_enum(ret.type_id, defs, msg)
                   [] visit = "struct" -> deserialize_struct(ret.type_id, defs, msg)
    /\ UNCHANGED <<ser, codec, plan, stream, rpos, buffer, defs, prev_len, pc, msg_len, sect, ret,
                   ncalls, dropped, out, eof, first_err, sl>>

\* Deserializer::from_slice(stream) and its value_deserializer(), on the
\* bytes the stream decoder is reading.
FromSlice ==
    /\ sl = NotRun
    /\ ncalls = 1
    /\ pc \in {"idle", "panicked"}
    /\ sl' = value_deserializer(stream, 0, NewTypes)
    /\ UNCHANGED <<ser, codec, plan, stream, rpos, buffer, defs, prev_len, pc, msg_len, sect, ret,
                   vres, ncalls, dropped, out, eof, first_err>>

Next ==
    \/ FromSlice
    \/ Call
    \/ ReadSectionLenFill
    \/ ReadSectionLenParse
    \/ ReadSectionBody
    \/ Dispatch
    \/ DeserializeValue

Spec == Init /\ [][Next]_vars

\* The framing round trip: what write_section wrote is read back.
SpecFrame == InitFrame /\ [][Next]_vars

SpecBoundary == InitBoundary /\ [][Next]_vars

\* ------------------------------------------------------------------------
\* Message on its own: words written and read back, and bytes read
\* ------------------------------------------------------------------------

\* The words written: of every width from 1 to 8 bytes, with a leading byte
\* of CodecLead and the rest all 0 or all 255; and 0.
CodecLead == {1, 127, 128, 255}

CodecFill == {0, 255}

CodecWords ==
    {PadBE(<<a>> \o [i \in 1..k |-> b]) : a \in CodecLead, b \in CodecFill, k \in 0..7}
        \cup {Zero64}

\* The bytes that follow a written word in the message read.
CodecRests == {<<>>, <<0>>, <<255, 1>>}

\* The first bytes of the messages read, and the messages: a first byte and
\* up to MaxTail bytes after it.
CodecHeaders == {0, 127, 128, 200, 246, 247, 248, 254, 255}

CodecInputs ==
    {<<h>> \o [i \in 1..k |-> 1] : h \in CodecHeaders, k \in 0..MaxTail} \cup {<<>>}

InitCodec ==
    /\ \E n \in CodecWords : codec = Msg("new", FALSE, n, <<>>, Rd("none", Zero64, 0))
    /\ ser = NoVariant
    /\ plan = <<>>
    /\ stream = <<>>
    /\ InitDecoder

CodecUnchanged ==
    UNCHANGED <<plan, stream, rpos, buffer, defs, prev_len, pc, msg_len, sect, ret,
                vres, ncalls, dropped, out, eof, first_err, sl, ser>>

\* msg.write_uint(n)
WriteUint ==
    /\ codec.pc = "new"
    /\ codec' = Msg("written", FALSE, codec.n, write_uint(codec.n), codec.rd)
    /\ CodecUnchanged

\* msg.write_int(n)
WriteInt ==
    /\ codec.pc = "new"
    /\ codec' = Msg("written", TRUE, codec.n, write_int(codec.n), codec.rd)
    /\ CodecUnchanged

\* read_uint() of a message that starts with what write_uint wrote
ReadUint ==
    /\ codec.pc = "written"
    /\ ~codec.signed
    /\ \E rest \in CodecRests :
          codec' = Msg("read", FALSE, codec.n, codec.bytes \o rest,
                       read_uint(codec.bytes \o rest, 0))
    /\ CodecUnchanged

\* read_int() of a message that starts with what write_int wrote
ReadInt ==
    /\ codec.pc = "written"
    /\ codec.signed
    /\ \E rest \in CodecRests :
          codec' = Msg("read", TRUE, codec.n, codec.bytes \o rest,
                       read_int(codec.bytes \o rest, 0))
    /\ CodecUnchanged

\* read_uint() of a message of any bytes
ReadBytes ==
    /\ codec.pc = "new"
    /\ codec.n = Zero64
    /\ \E input \in CodecInputs :
          codec' = Msg("probed", FALSE, codec.n, input, read_uint(input, 0))
    /\ CodecUnchanged

NextCodec == WriteUint \/ WriteInt \/ ReadUint \/ ReadInt \/ ReadBytes

SpecCodec == InitCodec /\ [][NextCodec]_vars

\* ------------------------------------------------------------------------
\* SerializeVariantValue: the encoding of an enum variant
\* (internal/ser/serialize_variant.rs)
\* ------------------------------------------------------------------------

\* idx.wrapping_add(1) of a u32
Inc32(idx) ==
    LET carry(i) == \A j \in (i + 1)..4 : idx[j] = 255
    IN  <<IF carry(1) THEN (idx[1] + 1) % 256 ELSE idx[1],
          IF carry(2) THEN (idx[2] + 1) % 256 ELSE idx[2],
          IF carry(3) THEN (idx[3] + 1) % 256 ELSE idx[3],
          (idx[4] + 1) % 256>>

\* write_header adding 1 while the index is still a u32
write_header_u32(value, idx) == value \o write_uint(PadBE(Inc32(idx)))

\* write_header: ctx.value.write_uint(idx as u64 + 1)
write_header(value, idx) == value \o write_uint(Inc64(PadBE(idx)))

\* write_footer: ctx.value.write_uint(0)
write_footer(value) == value \o write_uint(Zero64)

\* The fields a struct variant may be given.
MaxFields == 2

VariantKinds == {"newtype", "struct"}

VariantIdxs ==
    { <<0, 0, 0, 0>>, <<0, 0, 0, 126>>, <<0, 0, 0, 127>>, <<0, 0, 0, 255>>,
      <<0, 255, 255, 255>>, <<255, 255, 255, 255>> }

\* ctx.value when the variant serializer is made
VariantStarts == {<<>>, <<3>>}

\* What value.serialize(FieldValueSerializer) appends for the newtype payload,
\* and for a field of the struct (nothing for a field at its default).
NewtypeBodies == {<<>>, <<0>>, <<5>>, <<254, 1, 0>>}

FieldBodies == {<<>>, <<0>>, <<2>>}

\* SerializeVariantValue::new returned Ok
InitVariant ==
    /\ \E variant \in VariantKinds, idx \in VariantIdxs, start \in VariantStarts :
          ser = Variant("new", variant, idx, start, start, <<>>, TRUE, -1, 0)
    /\ codec = NoMessage
    /\ plan = <<>>
    /\ stream = <<>>
    /\ InitDecoder

VariantUnchanged ==
    UNCHANGED <<plan, stream, rpos, buffer, defs, prev_len, pc, msg_len, sect, ret,
                vres, ncalls, dropped, out, eof, first_err, sl, codec>>

\* serialize_newtype(value): the header, the payload, the footer
SerializeNewtype ==
    /\ ser.pc = "new"
    /\ LET header == write_header(ser.value, ser.variant_idx) IN
       IF ser.variant # "newtype"
       THEN ser' = [ser EXCEPT !.pc = "err", !.value = header]
       ELSE \E body \in NewtypeBodies, ok \in BOOLEAN :
              IF ok
              THEN ser' = [ser EXCEPT !.pc = "done",
                                      !.value = write_footer(header \o body),
                                      !.body = body,
                                      !.is_empty = FALSE]
              ELSE ser' = [ser EXCEPT !.pc = "err", !.value = header \o body,
                                      !.body = body]
    /\ VariantUnchanged

\* serialize_struct(): the header, and the struct serializer over ctx
SerializeStruct ==
    /\ ser.pc = "new"
    /\ LET header == write_header(ser.value, ser.variant_idx) IN
       IF ser.variant # "struct"
       THEN ser' = [ser EXCEPT !.pc = "err", !.value = header]
       ELSE ser' = [ser EXCEPT !.pc = "struct", !.value = header]
    /\ VariantUnchanged

\* SerializeStructVariantValue::serialize_field: the inner struct serializer
\* writes the delta and the value of a field that is not at its default
SerializeField ==
    /\ ser.pc = "struct"
    /\ ser.index < MaxFields
    /\ \E field \in FieldBodies :
          LET bytes == IF field = <<>> THEN <<>>
                       ELSE write_uint(U64(ser.index - ser.previous_index)) \o field
          IN  ser' = [ser EXCEPT !.value = ser.value \o bytes,
                                 !.body = ser.body \o bytes,
                                 !.is_empty = ser.is_empty /\ field = <<>>,
                                 !.previous_index = IF field = <<>> THEN ser.previous_index
                                                    ELSE ser.index,
                                 !.index = ser.index + 1]
    /\ VariantUnchanged

\* SerializeStructVariantValue::skip_field
SkipField ==
    /\ ser.pc = "struct"
    /\ ser.index < MaxFields
    /\ ser' = [ser EXCEPT !.index = ser.index + 1]
    /\ VariantUnchanged

\* SerializeStructVariantValue::end: the inner struct ends with its
\* terminator, then the trailer is written and the flag cleared
End ==
    /\ ser.pc = "struct"
    /\ LET inner == write_uint(Zero64) IN
       ser' = [ser EXCEPT !.pc = "done",
                          !.value = write_footer(ser.value \o inner),
                          !.body = ser.body \o inner,
                          !.is_empty = FALSE]
    /\ VariantUnchanged

NextVariant == SerializeNewtype \/ SerializeStruct \/ SerializeField \/ SkipField \/ End

SpecVariant == InitVariant /\ [][NextVariant]_vars

\* ------------------------------------------------------------------------
\* What the stream was built from, for the statements below
\* ------------------------------------------------------------------------

\* Where piece k of the plan ends in the uncut stream.
PieceEnd(k) == Len(Flatten(SubSeq(plan, 1, k)))

PieceStart(k) == PieceEnd(k - 1)

\* The bytes the cut took off the last piece.
Cut == Len(Flatten(plan)) - Len(stream)

\* A section whose payload is a wire type definition ...
IsDef(q, w) == q.wf /\ IsNeg(q.type_id) /\ w.res = "ok"

\* ... for the id the section announces, or for another one.
Matches(q) ==
    LET w == DecodeWireType(q.payload) IN IsDef(q, w) /\ w.id = Neg64(q.type_id)

Mismatches(q) ==
    LET w == DecodeWireType(q.payload) IN
    IsDef(q, w) /\ q.type_id # I64Min /\ w.id # Neg64(q.type_id)

\* A piece the decoder gets past: a value section or a matching definition.
OkPiece(q) == q.wf /\ (~IsNeg(q.type_id) \/ Matches(q))

\* Pieces 1..k are such pieces, and whole in the stream.
OkUpTo(k) ==
    /\ k <= Len(plan)
    /\ PieceEnd(k) <= Len(stream)
    /\ \A i \in 1..k : OkPiece(plan[i])

\* The dictionary after the definitions among pieces 1..k.
RECURSIVE DefsAfter(_)
DefsAfter(k) ==
    IF k = 0 THEN NewTypes
    ELSE IF Matches(plan[k])
         THEN insert(DefsAfter(k - 1),
                     WireType(DecodeWireType(plan[k].payload).kind, Neg64(plan[k].type_id)))
         ELSE DefsAfter(k - 1)

\* The sections deserializer() has been handed by read_section and is done with.
Handled == IF pc = "dispatch" THEN Len(out) - 1 ELSE Len(out)

\* No deserializer() call has failed.
NoFailure == first_err = None

\* The call that returned last is the first one to fail.
FirstFailure == first_err # None /\ first_err[1].call = ncalls /\ pc \in {"idle", "panicked"}

\* out[i] is piece i of the plan.
SameSection(i) ==
    /\ plan[i].wf
    /\ out[i].type_id = plan[i].type_id
    /\ out[i].len = Len(plan[i].payload)
    /\ out[i].payload = plan[i].payload

\* ------------------------------------------------------------------------
\* Section framing
\* ------------------------------------------------------------------------

\* C1: read_section on exactly the bytes write_section(type_id, payload)
\* emitted returns Some((type_id, payload.len())); the first payload.len()
\* bytes of the window are the payload, and after advancing past them the
\* buffer is empty and the reader exhausted - for every i64 type id
\* (i64::MIN and i64::MAX among them) and every payload.
SectionRoundTrip ==
    /\ (pc = "dispatch" /\ Len(out) = 1) =>
          /\ sect = Section(plan[1].type_id, Len(plan[1].payload))
          /\ Len(buffer) >= sect.len
          /\ SubSeq(buffer, 1, sect.len) = plan[1].payload
          /\ advance(buffer, sect.len) = <<>>
          /\ rpos = Len(stream)
    /\ (ncalls >= 1 /\ pc \in {"idle", "panicked"}) =>
          /\ Len(out) >= 1
          /\ SameSection(1)

SectionRoundTripSeen ==
    /\ pc = "dispatch"
    /\ Len(out) = 1
    /\ plan[1].type_id = I64Min
    /\ plan[1].payload = <<128, 255>>
    /\ sect = Section(I64Min, 2)

\* What read_section returns, call after call, when the first read delivers
\* the whole stream and the caller advances past each payload: the window w
\* is all that is left of the stream.  A length below the width of the type
\* id is taken as the build without overflow checks takes it.
RECURSIVE AllAtOnce(_)
AllAtOncePayload(type_id, len, w2) ==
    IF len < 0 \/ len > Len(w2)
    THEN <<[type_id |-> type_id, len |-> len, payload |-> <<>>]>>
    ELSE <<[type_id |-> type_id, len |-> len, payload |-> SubSeq(w2, 1, len)]>>
         \o AllAtOnce(advance(w2, len))

AllAtOnceTypeId(len, w1, t) ==
    IF t.res # "ok" THEN <<>>
    ELSE AllAtOncePayload(t.val, PayloadLen(len, t.pos), advance(w1, t.pos))

AllAtOnceBody(len, w1) ==
    IF Shortfall(Len(w1), len) > 0 THEN <<>>
    ELSE AllAtOnceTypeId(len, w1, read_int(w1, 0))

AllAtOnceLen(w, r) ==
    IF r.res # "ok" THEN <<>>
    ELSE AllAtOnceBody(AsUsize(r.val), advance(w, r.pos))

AllAtOnce(w) ==
    IF w = <<>> THEN <<>> ELSE AllAtOnceLen(w, read_uint(w, 0))

IsPrefix(a, b) == Len(a) <= Len(b) /\ SubSeq(b, 1, Len(a)) = a

\* read_section gave up: the input ended, or the type id did not parse.
FramingErrors == {"UnexpectedEof", "failed to read type id: Incomplete"}

\* The sections returned so far are the first of those returned all at once.
SameSectionsWhileReading == NoFailure => IsPrefix(out, AllAtOnce(stream))

\* At the clean end of the input they are all of them.
SameSectionsAtEof ==
    (NoFailure /\ pc = "idle" /\ ret.kind = "none") => out = AllAtOnce(stream)

\* And so they are when read_section gives up.
SameSectionsAtError ==
    (FirstFailure /\ ret.kind = "err" /\ ret.msg \in FramingErrors) =>
        out = AllAtOnce(stream)

\* C2: for every byte stream the reader's chunking makes no difference to
\* the sections read_section returns: fed in chunks of any size, one byte at
\* a time included, it returns the sections it returns when the first read
\* delivers everything - as many, with the same type ids, lengths and
\* payloads.
SameSectionsAnyChunking ==
    SameSectionsWhileReading /\ SameSectionsAtEof /\ SameSectionsAtError

\* ------------------------------------------------------------------------
\* The end of the input
\* ------------------------------------------------------------------------

\* A call in which the reader reported the end of the input returns None or
\* UnexpectedEof, None with an empty buffer only.
EofOutcomes ==
    eof => /\ pc = "idle"
           /\ \/ ret = RetNone /\ buffer = <<>>
              \/ ret = RetErr("UnexpectedEof")

\* While no earlier call has failed, it is None when the stream ends where a
\* section ends and UnexpectedEof when it ends inside one.
EofOnBoundary ==
    (eof /\ (NoFailure \/ FirstFailure)) => (ret = RetNone <=> Cut = 0)

\* C3: when the reader reports the end of the input, read_section returns
\* None if and only if the end falls on a section boundary (the buffer is
\* empty and no byte of a next section has been read); an end inside a
\* section - in its length prefix or after it - gives UnexpectedEof, never
\* None and never a section.
CleanEofOnlyOnBoundary == EofOutcomes /\ EofOnBoundary

CleanEofOnlyOnBoundarySeen ==
    /\ eof
    /\ ret = RetErr("UnexpectedEof")
    /\ Len(out) = 1
    /\ Cut > 0
    /\ ncalls = 2


\* ------------------------------------------------------------------------
\* StreamDeserializer::deserializer()
\* ------------------------------------------------------------------------

\* deserializer() hands out no section with a negative type id.
NoTypeDefSurfaces == ret.kind = "value" => ~IsNeg(ret.type_id)

\* While no call has failed, the sections handled are the first pieces of
\* the stream, in order.
HandledInOrder ==
    NoFailure => /\ OkUpTo(Handled)
                 /\ \A i \in 1..Handled : SameSection(i)

\* A call returns at a value section or at the clean end of the input, every
\* definition before it consumed and in the dictionary.
ReturnsAtValueOrEof ==
    (NoFailure /\ pc = "idle" /\ ncalls > 0) =>
        /\ ret.kind \in {"value", "none"}
        /\ ret.kind = "value" =>
              /\ ~IsNeg(plan[Len(out)].type_id)
              /\ ret.type_id = plan[Len(out)].type_id
              /\ SubSeq(buffer, 1, ret.len) = plan[Len(out)].payload
        /\ ret.kind = "none" => Len(out) = Len(plan)
        /\ defs = DefsAfter(Len(out))
        /\ \A i \in 1..Len(out) :
              IsNeg(plan[i].type_id) => lookup(defs, Neg64(plan[i].type_id)) # None

\* C4: deserializer() never surfaces a type definition section: it consumes
\* them until it returns a value section or the clean end of the input; the
\* value sections come out in stream order, and when one is returned the
\* dictionary holds every type a preceding definition section defined.
ValuesInOrderAfterDefs == NoTypeDefSurfaces /\ HandledInOrder /\ ReturnsAtValueOrEof

ValuesInOrderAfterDefsSeen ==
    /\ pc = "idle"
    /\ NoFailure
    /\ ret.kind = "value"
    /\ ret.type_id = I64(65)
    /\ Len(out) = 2
    /\ out[1].type_id = I64(-65)
    /\ lookup(defs, I64(65)) = Some(WireType("Struct", I64(65)))

\* ------------------------------------------------------------------------
\* Type definitions
\* ------------------------------------------------------------------------

\* Piece j is a definition for another id than its section announces, whole
\* in the stream, and the first piece a decoder does not get past.
FirstMismatch(j) ==
    /\ j \in 1..Len(plan)
    /\ PieceEnd(j) <= Len(stream)
    /\ Mismatches(plan[j])
    /\ OkUpTo(j - 1)

\* The stream decoder, once it has read that section, has failed on it with
\* "type id mismatch", and the dictionary is what it was before the section.
StreamMismatch(j) ==
    Handled >= j =>
        /\ first_err # None
        /\ first_err[1].ret = RetErr("type id mismatch")
        /\ first_err[1].nout = j
        /\ FirstFailure => defs = DefsAfter(j - 1)

\* The standalone decoder fails on it in the same way.
SliceMismatch(j) ==
    (sl # NotRun /\ \A i \in 1..(j - 1) : IsNeg(plan[i].type_id)) =>
        /\ sl.res = "err"
        /\ sl.msg = "type id mismatch"
        /\ sl.types = DefsAfter(j - 1)

\* C5: a definition section with type_id = -K whose wire type carries an id
\* other than K fails with "type id mismatch", in the stream decoder and in
\* the from_slice decoder alike, and leaves the dictionary as it was.
MismatchFails ==
    \A j \in 1..Len(plan) :
        (Handled >= j \/ sl # NotRun) =>
            (FirstMismatch(j) => StreamMismatch(j) /\ SliceMismatch(j))

MismatchFailsSeen ==
    /\ FirstMismatch(2)
    /\ Matches(plan[1])
    /\ FirstFailure
    /\ ret = RetErr("type id mismatch")
    /\ defs = DefsAfter(1)
    /\ sl.res = "err"
    /\ sl.msg = "type id mismatch"
    /\ sl.types = DefsAfter(1)

FailureIsSticky ==
    (first_err # None /\ pc \in {"idle", "panicked"}) => ret = first_err[1].ret

\* C8: whenever read_section returns Some((type_id, n)), the window holds at
\* least n bytes, and its first n bytes are that section's payload.
PayloadInWindow ==
    pc = "dispatch" =>
        /\ 0 <= sect.len
        /\ sect.len <= Len(buffer)
        /\ (NoFailure /\ plan[Len(out)].wf) =>
              SubSeq(buffer, 1, sect.len) = plan[Len(out)].payload

\* ------------------------------------------------------------------------
\* What framing drops from the buffer
\* ------------------------------------------------------------------------

\* The width of the length prefix of piece k.
PrefixWidth(k) ==
    Len(plan[k].bytes) - Len(write_int(plan[k].type_id)) - Len(plan[k].payload)

\* Piece k is a section the decoder has come to in step, and the reader has
\* not delivered all of it.
PartlyDelivered(k) ==
    /\ NoFailure
    /\ plan[k].wf
    /\ OkUpTo(k - 1)
    /\ rpos < PieceEnd(k)

\* C9: framing advances past bytes of a section only once the whole section
\* - length prefix, type id and payload - is in the buffer: while the reader
\* has delivered only part of a section, no byte of it has been dropped.
NothingDroppedBeforeWhole ==
    \A k \in 1..Len(plan) : PartlyDelivered(k) => dropped <= PieceStart(k)

\* C9, as the code has it: of a section the reader has delivered only part
\* of, the length prefix alone may have been dropped, and only once all of
\* the prefix was in the buffer; no byte of its type id or payload has.
OnlyPrefixDroppedBeforeWhole ==
    \A k \in 1..Len(plan) :
        PartlyDelivered(k) =>
            \/ dropped <= PieceStart(k)
            \/ /\ dropped = PieceStart(k) + PrefixWidth(k)
               /\ rpos >= PieceStart(k) + PrefixWidth(k)
               /\ pc = "body"

OnlyPrefixDroppedBeforeWholeSeen ==
    /\ Len(plan) = 2
    /\ PartlyDelivered(2)
    /\ pc = "body"
    /\ dropped = PieceStart(2) + PrefixWidth(2)
    /\ buffer = <<>>

\* ------------------------------------------------------------------------
\* The singleton prefix
\* ------------------------------------------------------------------------

\* A value section of a type that is no struct has been decoded.
SingletonDecoded ==
    /\ vres # NoValue
    /\ ret.kind = "value"
    /\ ~IsStruct(defs, ret.type_id)

\* The payload of the value section returned last.
Payload == SubSeq(buffer, 1, ret.len)

NotSingletonNorStruct == "neither a singleton nor a struct value"

\* The message starts with a whole uint, and it is 0.
StartsWithZero(msg) == read_uint(msg, 0).res = "ok" /\ read_uint(msg, 0).val = Zero64

\* C10: decoding a singleton value whose payload does not start with the
\* uint 0 fails with exactly "neither a singleton nor a struct value" in
\* deserialize_any, deserialize_enum and deserialize_struct - an empty
\* payload and one that starts with a multi-byte varint header included.
SingletonPrefixMessage ==
    (SingletonDecoded /\ ~StartsWithZero(Payload)) =>
        vres.kind = "err" /\ vres.msg = NotSingletonNorStruct

\* C10, as the code has it: a payload that starts with a whole uint other
\* than 0 fails with that message; an empty payload, or one that ends inside
\* its first uint, fails with "message incomplete".
SingletonPrefixMessages ==
    SingletonDecoded =>
        /\ (read_uint(Payload, 0).res = "ok" /\ read_uint(Payload, 0).val # Zero64) =>
              vres.kind = "err" /\ vres.msg = NotSingletonNorStruct
        /\ read_uint(Payload, 0).res = "incomplete" =>
              vres.kind = "err" /\ vres.msg = "message incomplete"

SingletonPrefixMessagesSeen ==
    /\ SingletonDecoded
    /\ Payload = <<255, 2>>
    /\ vres.call = "deserialize_enum"
    /\ vres.msg = NotSingletonNorStruct

\* ------------------------------------------------------------------------
\* The varint codec
\* ------------------------------------------------------------------------

\* What was written: the bytes of write_uint or write_int for the word n.
Written == IF codec.signed THEN write_int(codec.n) ELSE write_uint(codec.n)

\* C11: for every u64 n, read_uint on the bytes write_uint(n) wrote returns
\* n and consumes exactly those bytes; for every i64 n, i64::MIN and
\* i64::MAX among them, read_int on the bytes write_int(n) wrote returns n.
VarintRoundTrip ==
    codec.pc = "read" =>
        /\ codec.rd.res = "ok"
        /\ codec.rd.val = codec.n
        /\ codec.rd.pos = Len(Written)
        /\ SubSeq(codec.bytes, 1, codec.rd.pos) = Written

VarintRoundTripSeen ==
    /\ codec.pc = "read"
    /\ codec.signed
    /\ codec.n = I64Min
    /\ codec.rd = Rd("ok", I64Min, 9)
    /\ Len(codec.bytes) = 11

\* C12: for every byte sequence read_uint returns a value or Incomplete, and
\* when the first byte b is 128 or more the width L = !b + 1 lies in 1..8:
\* the big-endian read never takes more than 8 bytes, and nothing else can
\* go wrong in the codec.
ReadUintWidthInRange ==
    codec.pc \in {"probed", "read"} =>
        /\ codec.rd.res \in {"ok", "incomplete"}
        /\ (codec.bytes # <<>> /\ codec.bytes[1] >= 128) =>
              (255 - codec.bytes[1]) + 1 \in 1..8

\* n < 128
Below128(n) == (\A i \in 1..7 : n[i] = 0) /\ n[8] < 128

\* The bytes are a header !(L - 1) and L big-endian bytes of n, the first of
\* them not 0.
WideUint(bytes, n) ==
    /\ Len(bytes) - 1 \in 1..8
    /\ bytes[1] = 255 - (Len(bytes) - 2)
    /\ bytes[2] # 0
    /\ PadBE(Tail(bytes)) = n

\* C13: write_uint(n) emits exactly one byte if and only if n < 128;
\* otherwise a header byte, the complement of L - 1, and exactly L
\* big-endian bytes, L in 1..8 the least number of bytes that hold n (the
\* first of them is not 0).
WriteUintMinimal ==
    (codec.pc = "written" /\ ~codec.signed) =>
        /\ Len(codec.bytes) = 1 <=> Below128(codec.n)
        /\ Below128(codec.n) => codec.bytes = <<codec.n[8]>>
        /\ ~Below128(codec.n) => WideUint(codec.bytes, codec.n)

WriteUintMinimalSeen ==
    /\ codec.pc = "written"
    /\ ~codec.signed
    /\ codec.n = U64(256)
    /\ codec.bytes = <<254, 1, 0>>

\* ------------------------------------------------------------------------
\* Value dispatch
\* ------------------------------------------------------------------------

\* A value section has been decoded whose type id the dictionary does not hold.
UnresolvedDecoded ==
    /\ vres # NoValue
    /\ ret.kind = "value"
    /\ lookup(defs, ret.type_id) = None

\* C14: the value decoder reads no byte of a value section's payload unless
\* the section's type id resolves in the dictionary: for a type id without
\* an entry, decoding fails with the cursor still at the start of the
\* payload.
UnresolvedReadsNothing ==
    UnresolvedDecoded => vres.kind = "err" /\ vres.pos = 0

\* C14, as the code has it: a type id without an entry is taken for a
\* singleton; the leading uint of the payload is read before anything looks
\* the type up, and the field-value decoder is entered, past that uint, when
\* it is 0.
UnresolvedReadsPrefix ==
    UnresolvedDecoded =>
        /\ vres.kind # "struct"
        /\ vres.pos = read_uint(Payload, 0).pos
        /\ Payload # <<>> => vres.pos >= 1
        /\ vres.kind = "field" <=> StartsWithZero(Payload)

UnresolvedReadsPrefixSeen ==
    /\ UnresolvedDecoded
    /\ ret.type_id = I64(64)
    /\ Payload = <<0, 2>>
    /\ vres.kind = "field"
    /\ vres.pos = 1
    /\ vres.call = "deserialize_any"

\* ------------------------------------------------------------------------
\* What the stream decoder advances past
\* ------------------------------------------------------------------------

\* A deserializer() call starts.
CallStep == pc = "idle" /\ pc' # "idle"

\* C15: over any sequence of deserializer() calls, calls after a None or an
\* error among them, the payload of a returned value section is advanced
\* past exactly once, at the start of the call that follows its return, and
\* never again; no call drops bytes of a section not yet returned.
PayloadAdvancedOnce ==
    [][CallStep =>
          dropped' - dropped = (IF ret.kind = "value" THEN ret.len ELSE 0)]_vars

\* C16: every buffer.advance(n) of the stream decoder and of the framing
\* layer has n no greater than the number of bytes the buffer holds: the one
\* at the start of a call, and every one after it (which drops no more than
\* the buffer held and the reader has delivered since).
AdvanceWithinBuffer ==
    [][/\ CallStep => (prev_len = None \/ prev_len[1] <= Len(buffer))
       /\ dropped' - dropped <= Len(buffer) + (rpos' - rpos)]_vars

\* C17: read_section parses the type id from the `length` bytes of the
\* section alone: its width T is at most length, the payload length
\* length - T is never negative (nothing underflows), and no byte of a
\* following section is read as part of the type id - also for a length of
\* 0, or one below the width of the type id.
TypeIdWithinSection ==
    [][pc = "body" =>
          /\ ret'.msg # "attempt to subtract with overflow"
          /\ pc' = "dispatch" => (sect'.len >= 0 /\ sect'.len < msg_len)]_vars

\* C18: in deserialize_any, deserialize_enum and deserialize_struct alike:
\* when the dictionary resolves type_id to a Struct descriptor the struct
\* decoder is entered with the cursor where it was (no prefix consumed);
\* otherwise exactly one uint is consumed, and it must be 0 for the
\* field-value decoder to be entered, with the same type_id.
StructOrSingletonDispatch ==
    (vres # NoValue /\ ret.kind = "value") =>
        IF lookup(defs, ret.type_id) = Some(WireType("Struct", ret.type_id))
        THEN /\ vres.kind = "struct"
             /\ vres.pos = 0
             /\ vres.type_id = ret.type_id
        ELSE /\ vres.kind # "struct"
             /\ vres.pos = read_uint(Payload, 0).pos
             /\ vres.kind = "field" <=> StartsWithZero(Payload)
             /\ vres.kind = "field" => vres.type_id = ret.type_id

StructOrSingletonDispatchSeen ==
    /\ vres # NoValue
    /\ ret.kind = "value"
    /\ ret.type_id = I64(65)
    /\ lookup(defs, I64(65)) = Some(WireType("Struct", I64(65)))
    /\ vres.call = "deserialize_enum"
    /\ vres.kind = "struct"
    /\ Payload = <<0>>

\* The width of the length varint the window starts with, from its first
\* byte, and whether the window holds all of it.
LengthWidth == IF buffer[1] < 128 THEN 1 ELSE 1 + (256 - buffer[1])

LengthWhole == buffer # <<>> /\ LengthWidth <= 9 /\ Len(buffer) >= LengthWidth

\* C19: while read_section_len probes for the length, a parse that is not
\* complete drops no byte and the window only grows by the bytes pulled from
\* the reader; the window is advanced only when the whole length varint is in
\* it, by exactly the width of that varint, without reading.
LengthProbeKeepsWindow ==
    [][pc = "len" =>
          IF LengthWhole
          THEN /\ buffer' = SubSeq(buffer, LengthWidth + 1, Len(buffer))
               /\ dropped' = dropped + LengthWidth
               /\ rpos' = rpos
               /\ pc' = "body"
          ELSE /\ buffer' = buffer \o SubSeq(stream, rpos + 1, rpos')
               /\ dropped' = dropped
               /\ pc' # "body"]_vars

LengthProbeKeepsWindowSeen ==
    /\ pc = "body"
    /\ msg_len = 131
    /\ dropped = 2
    /\ rpos = 3
    /\ Len(buffer) = 1
    /\ SubSeq(stream, 1, 2) = <<255, 131>>

\* The first call of the stream decoder has returned and the standalone
\* decoder has run over the same bytes.
BothRan == sl # NotRun /\ ncalls = 1 /\ pc = "idle"

\* C20: over type-definition sections followed by a value section, the
\* standalone decoder and the stream decoder reach the same value type_id,
\* the same dictionary and the same start of the value body.
SameBoundaries ==
    BothRan =>
        /\ sl.res = "value" <=> ret.kind = "value"
        /\ ret.kind = "value" =>
              /\ sl.type_id = ret.type_id
              /\ sl.types = defs
              /\ sl.pos = dropped

\* The word h is the number of the u32 idx plus one.
IsSucc(idx, h) ==
    LET lo == idx[2] * 65536 + idx[3] * 256 + idx[4] IN
    /\ h[1] = 0 /\ h[2] = 0 /\ h[3] = 0
    /\ IF lo = 16777215
       THEN h[4] * 256 + h[5] = idx[1] + 1 /\ h[6] = 0 /\ h[7] = 0 /\ h[8] = 0
       ELSE h[4] * 256 + h[5] = idx[1] /\ h[6] * 65536 + h[7] * 256 + h[8] = lo + 1

\* What the variant serializer has appended to ctx.value.
Appended == SubSeq(ser.value, Len(ser.start) + 1, Len(ser.value))

\* C21: a newtype or struct variant encoded with success has appended to the
\* value buffer the uint variant_index + 1 (never wrapped, whatever the
\* 32-bit index), then the body of the variant, then one uint 0, and its
\* result is flagged non-empty.
VariantEncoding ==
    ser.pc = "done" =>
        LET header == read_uint(Appended, 0) IN
        /\ SubSeq(ser.value, 1, Len(ser.start)) = ser.start
        /\ header.res = "ok"
        /\ IsSucc(ser.variant_idx, header.val)
        /\ SubSeq(Appended, 1, header.pos) = write_uint(header.val)
        /\ Len(Appended) = header.pos + Len(ser.body) + 1
        /\ SubSeq(Appended, header.pos + 1, header.pos + Len(ser.body)) = ser.body
        /\ Appended[Len(Appended)] = 0
        /\ ~ser.is_empty

VariantEncodingSeen ==
    /\ ser.pc = "done"
    /\ ser.variant = "struct"
    /\ ser.variant_idx = <<255, 255, 255, 255>>
    /\ ser.start = <<3>>
    /\ ser.value = <<3, 251, 1, 0, 0, 0, 0, 2, 2, 0, 0>>
    /\ ser.body = <<2, 2, 0>>
    /\ ~ser.is_empty

\* C22: every value section handed to the caller, by the stream decoder or by
\* the standalone decoder, carries a strictly positive type_id; a section
\* whose type_id is 0 never reaches the value decoder.
ValueTypeIdPositive ==
    /\ ret.kind = "value" => (ret.type_id # Zero64 /\ ~IsNeg(ret.type_id))
    /\ sl.res = "value" => (sl.type_id # Zero64 /\ ~IsNeg(sl.type_id))
    /\ vres # NoValue => vres.type_id # Zero64

====
